---- MODULE Spec2Model ----
(***************************************************************************)
(* Model of LLMTask (src/Tasks/tasks.py): prompt templating, the batch     *)
(* loop of run, and the line-oriented response parsers.                    *)
(*                                                                         *)
(* A Python str is a sequence of characters; a character is a one-element  *)
(* TLA+ string, except the three non-ASCII glyphs the code names, which    *)
(* are written "BULLET" (U+2022), "EMDASH" (U+2014) and "ENDASH" (U+2013), *)
(* and the grave accent, which is written "BACKTICK".                      *)
(* Python values held in the placeholder map are tagged records.           *)
(***************************************************************************)
EXTENDS Integers, Sequences, FiniteSets, TLC

VARIABLES
    pc,             \* position of run: start, loop, generate, callback, done, raised
    task_folder,    \* run argument
    template,       \* content of prompt.txt, or NoFile when the path does not exist
    placeholders,   \* run argument: function from names to Python values
    target_count,   \* run argument
    max_batches,    \* run argument
    has_callback,   \* whether progress_callback is truthy
    prompt,         \* local of run: the filled prompt
    collected,      \* local of run: the accumulator
    batch_count,    \* local of run
    result,         \* what run returned (pc = "done") or the error it raised (pc = "raised")
    outcomes,       \* history: the outcome of each llm_client.generate call, in order
    cb_log,         \* history: the arguments and the outcome of each progress_callback invocation
    raw_line,       \* line pipeline: one line of a response
    line,           \* line pipeline: local "line" of a parser
    kv,             \* line pipeline: local "kv" of a parser
    items,          \* line pipeline: local "items" of a parser
    lpc             \* position of the line pipeline: raw, cleaned, split, emitted, skipped

runVars == <<pc, task_folder, template, placeholders, target_count, max_batches,
             has_callback, prompt, collected, batch_count, result, outcomes, cb_log>>
lineVars == <<raw_line, line, kv, items, lpc>>
vars == <<runVars, lineVars>>

----------------------------------------------------------------------------
(* Bounds of the model. *)

MaxTarget == 4
MaxBatchLimit == 4
MaxTemplateLen == 5
MaxLineTokens == 3

----------------------------------------------------------------------------
(* Characters and the character classes of Python's re and str. *)

Lowers == <<"a","b","c","d","e","f","g","h","i","j","k","l","m",
            "n","o","p","q","r","s","t","u","v","w","x","y","z">>
Uppers == <<"A","B","C","D","E","F","G","H","I","J","K","L","M",
            "N","O","P","Q","R","S","T","U","V","W","X","Y","Z">>
Digits == {"0","1","2","3","4","5","6","7","8","9"}

Range(s) == {s[i] : i \in 1..Len(s)}

SpaceChars == {" ", "\t", "\n", "\r"}
WordChars == Range(Lowers) \cup Range(Uppers) \cup Digits \cup {"_"}
BulletChars == {"-", "*", "BULLET"}
QuoteChars == {"*", "_", "BACKTICK", "\"", "'", " "}

UpperChar(c) == IF \E i \in 1..Len(Lowers) : Lowers[i] = c
                THEN Uppers[CHOOSE i \in 1..Len(Lowers) : Lowers[i] = c]
                ELSE c
LowerChar(c) == IF \E i \in 1..Len(Uppers) : Uppers[i] = c
                THEN Lowers[CHOOSE i \in 1..Len(Uppers) : Uppers[i] = c]
                ELSE c
Upper(s) == [i \in 1..Len(s) |-> UpperChar(s[i])]
Lower(s) == [i \in 1..Len(s) |-> LowerChar(s[i])]

Min(a, b) == IF a <= b THEN a ELSE b
Max(a, b) == IF a >= b THEN a ELSE b

(* s[n:] and s[:n] for 0 <= n. *)
DropN(s, n) == SubSeq(s, n + 1, Len(s))
TakeN(s, n) == SubSeq(s, 1, Min(n, Len(s)))

(* The number of leading / trailing characters of s that are in the class cs. *)
RECURSIVE LeadCount(_, _)
LeadCount(s, cs) ==
    IF s # <<>> /\ Head(s) \in cs THEN 1 + LeadCount(Tail(s), cs) ELSE 0
RECURSIVE TrailCount(_, _)
TrailCount(s, cs) ==
    IF s # <<>> /\ s[Len(s)] \in cs THEN 1 + TrailCount(SubSeq(s, 1, Len(s) - 1), cs) ELSE 0

(* str.strip() and str.strip(chars). *)
StripWith(s, cs) ==
    LET t == DropN(s, LeadCount(s, cs))
    IN  SubSeq(t, 1, Len(t) - TrailCount(t, cs))
Strip(s) == StripWith(s, SpaceChars)
StripQuotes(s) == StripWith(s, QuoteChars)

(* "sep in s", and the index of the first occurrence (s.find(sep) + 1). *)
OccursAt(s, sep, i) == /\ i + Len(sep) - 1 <= Len(s)
                       /\ SubSeq(s, i, i + Len(sep) - 1) = sep
Contains(s, sep) == \E i \in 1..Len(s) + 1 : OccursAt(s, sep, i)
RECURSIVE FindFrom(_, _, _)
FindFrom(s, sep, i) ==
    IF i > Len(s) + 1 THEN 0
    ELSE IF OccursAt(s, sep, i) THEN i ELSE FindFrom(s, sep, i + 1)
Find(s, sep) == FindFrom(s, sep, 1)

(* s.split(sep, 1) when sep occurs in s. *)
SplitOnce(s, sep) ==
    LET p == Find(s, sep)
    IN  <<SubSeq(s, 1, p - 1), DropN(s, p + Len(sep) - 1)>>

(* str.splitlines(): the pieces between line breaks ("\r\n" is one break), *)
(* without a final empty piece.                                            *)
LineBreaks == {"\n", "\r"}
RECURSIVE SplitLinesFrom(_, _)
SplitLinesFrom(s, cur) ==
    IF s = <<>> THEN (IF cur = <<>> THEN <<>> ELSE <<cur>>)
    ELSE IF Len(s) >= 2 /\ s[1] = "\r" /\ s[2] = "\n"
         THEN <<cur>> \o SplitLinesFrom(DropN(s, 2), <<>>)
    ELSE IF Head(s) \in LineBreaks THEN <<cur>> \o SplitLinesFrom(Tail(s), <<>>)
    ELSE SplitLinesFrom(Tail(s), Append(cur, Head(s)))
SplitLines(s) == SplitLinesFrom(s, <<>>)

----------------------------------------------------------------------------
(* Python values of the placeholder map, str(), truthiness and dict.get. *)

PyNone == [t |-> "none"]
PyStr(s) == [t |-> "str", s |-> s]
PyInt(n) == [t |-> "int", n |-> n]

DigitOf == <<"0","1","2","3","4","5","6","7","8","9">>
RECURSIVE NatStr(_)
NatStr(n) == IF n < 10 THEN <<DigitOf[n + 1]>>
             ELSE Append(NatStr(n \div 10), DigitOf[(n % 10) + 1])
PyToStr(v) ==
    CASE v.t = "str" -> v.s
      [] v.t = "int" -> IF v.n < 0 THEN <<"-">> \o NatStr(0 - v.n) ELSE NatStr(v.n)
      [] v.t = "none" -> <<"N", "o", "n", "e">>
Truthy(v) ==
    CASE v.t = "str" -> v.s # <<>>
      [] v.t = "int" -> v.n # 0
      [] v.t = "none" -> FALSE
PyOr(a, b) == IF Truthy(a) THEN a ELSE b
DictGet(d, k) == IF k \in DOMAIN d THEN d[k] ELSE PyNone

K_language == <<"l", "a", "n", "g", "u", "a", "g", "e">>
K_sentiment == <<"s", "e", "n", "t", "i", "m", "e", "n", "t">>
K_sentiment_type == <<"s", "e", "n", "t", "i", "m", "e", "n", "t", "_", "t", "y", "p", "e">>
K_target_type == <<"t", "a", "r", "g", "e", "t", "_", "t", "y", "p", "e">>

----------------------------------------------------------------------------
(* Prompt templating: re.findall and re.sub with the pattern \{(\w+)\}. *)

(* Variant of MarkerLenAt: the pattern \{(\w)\}, a name of one character. *)
MarkerLenAtOneChar(s) ==
    IF Len(s) >= 3 /\ s[1] = "{" /\ s[2] \in WordChars /\ s[3] = "}" THEN 3 ELSE 0
(* The length of the match of \{(\w+)\} at the head of s, or 0. *)
MarkerLenAt(s) ==
    IF s = <<>> \/ Head(s) # "{" THEN 0
    ELSE LET w == LeadCount(Tail(s), WordChars)
         IN  IF w >= 1 /\ Len(s) >= w + 2 /\ s[w + 2] = "}" THEN w + 2 ELSE 0
MarkerNameAt(s) == SubSeq(s, 2, MarkerLenAt(s) - 1)

(* re.findall(r"\{(\w+)\}", text): the non-overlapping matches, left to right. *)
RECURSIVE FindAllMarkers(_)
FindAllMarkers(text) ==
    IF text = <<>> THEN <<>>
    ELSE IF MarkerLenAt(text) > 0
         THEN <<MarkerNameAt(text)>> \o FindAllMarkers(DropN(text, MarkerLenAt(text)))
    ELSE FindAllMarkers(Tail(text))

(* list(dict.fromkeys(names)): unique, first-occurrence order. *)
RECURSIVE Unique(_)
Unique(names) ==
    IF names = <<>> THEN <<>>
    ELSE LET init == Unique(SubSeq(names, 1, Len(names) - 1))
             last == names[Len(names)]
         IN  IF last \in Range(init) THEN init ELSE Append(init, last)
FindPlaceholders(text) == Unique(FindAllMarkers(text))

(* _repl: the replacement of one match. *)
Repl(name, ph) == PyToStr(IF name \in DOMAIN ph THEN ph[name] ELSE PyStr(<<>>))

(* re.sub(r"\{(\w+)\}", _repl, raw): one pass; replacements are not rescanned. *)
RECURSIVE ReSub(_, _)
ReSub(raw, ph) ==
    IF raw = <<>> THEN <<>>
    ELSE IF MarkerLenAt(raw) > 0
         THEN Repl(MarkerNameAt(raw), ph) \o ReSub(DropN(raw, MarkerLenAt(raw)), ph)
    ELSE <<Head(raw)>> \o ReSub(Tail(raw), ph)

MissingPlaceholders(raw, ph) ==
    SelectSeq(FindPlaceholders(raw), LAMBDA p : p \notin DOMAIN ph)

----------------------------------------------------------------------------
(* Line cleaning and key/value splitting. *)

(* re.sub(r'^\s*[-*BULLET•]\s*', '', line) *)
StripBullet(l) ==
    LET ws == LeadCount(l, SpaceChars)
    IN  IF Len(l) > ws /\ l[ws + 1] \in BulletChars
        THEN LET rest == DropN(l, ws + 1)
             IN  DropN(rest, LeadCount(rest, SpaceChars))
        ELSE l

(* re.sub(r'^\d+\.?\s*', '', line) *)
StripOrdinal(l) ==
    LET d == LeadCount(l, Digits)
    IN  IF d >= 1
        THEN LET r1 == DropN(l, d)
                 r2 == IF r1 # <<>> /\ Head(r1) = "." THEN Tail(r1) ELSE r1
             IN  DropN(r2, LeadCount(r2, SpaceChars))
        ELSE l

StandardLineClean(l) ==
    LET l1 == Strip(l)
    IN  IF l1 = <<>> THEN <<>>
        ELSE Strip(StripOrdinal(StripBullet(l1)))

(* Variant of Separators: the order the comment of _split_key_val gives. *)
SeparatorsTabThird ==
    << <<":">>, <<" ", "-", " ">>, <<"\t">>, <<" ", "EMDASH", " ">>, <<"ENDASH">> >>
Separators == << <<":">>, <<" ", "-", " ">>, <<" ", "EMDASH", " ">>, <<"ENDASH">>, <<"\t">> >>

(* None, as the value of "kv". *)
NoKV == <<>>

(* The two strips applied to each part: .strip() and then .strip(QuoteChars). *)
StripPart(s) == StripQuotes(Strip(s))

(* The for loop of _split_key_val from separator number i on, and what follows it. *)
RECURSIVE SplitKeyValFrom(_, _)
SplitKeyValFrom(l, i) ==
    IF i > Len(Separators)
    THEN (IF l # <<>> THEN <<StripPart(l), <<>>>> ELSE NoKV)
    ELSE IF Contains(l, Separators[i])
         THEN LET lr == SplitOnce(l, Separators[i])
              IN  <<StripPart(lr[1]), StripPart(lr[2])>>
    ELSE SplitKeyValFrom(l, i + 1)
SplitKeyVal(l) == SplitKeyValFrom(l, 1)

----------------------------------------------------------------------------
(* The four parsing strategies and their selection. *)

S_DONE == <<"D", "O", "N", "E">>

(* Variant of SkipLine: DONE is compared without upper-casing. *)
SkipLineCaseSensitive(l) == l = <<>> \/ l = S_DONE \/ Head(l) = "#"
(* The skip test of every parser, taken on the cleaned line. *)
SkipLine(l) == l = <<>> \/ Upper(l) = S_DONE \/ Head(l) = "#"

LexiconItem(k, ph) ==
    [word |-> k[1], translation |-> k[2],
     language |-> DictGet(ph, K_language),
     sentiment |-> PyOr(DictGet(ph, K_sentiment), DictGet(ph, K_sentiment_type))]

BootstrappingItem(k, ph) ==
    [item |-> k[1], description |-> k[2],
     language |-> DictGet(ph, K_language),
     target_type |-> DictGet(ph, K_target_type)]

SentimentItem(k, ph) ==
    [phrase |-> k[1], bearing |-> k[2],
     language |-> DictGet(ph, K_language),
     sentiment_type |-> PyOr(DictGet(ph, K_sentiment_type), DictGet(ph, K_sentiment))]

ContextKeys == {K_language, K_target_type, K_sentiment, K_sentiment_type}
GenericItem(k, ph) ==
    [f \in {<<"k", "e", "y">>, <<"v", "a", "l", "u", "e">>} \cup (DOMAIN ph \cap ContextKeys) |->
        IF f = <<"k", "e", "y">> THEN PyStr(k[1])
        ELSE IF f = <<"v", "a", "l", "u", "e">> THEN PyStr(k[2])
        ELSE ph[f]]

MakeItem(strategy, k, ph) ==
    CASE strategy = "lexicon_generating" -> LexiconItem(k, ph)
      [] strategy = "lexicon_bootstrapping" -> BootstrappingItem(k, ph)
      [] strategy = "sentiment_bearings" -> SentimentItem(k, ph)
      [] strategy = "generic" -> GenericItem(k, ph)

(* The body of the for loop of a parser: the items one raw line adds. *)
ParseRawLine(strategy, raw, ph) ==
    LET l == StandardLineClean(raw)
    IN  IF SkipLine(l) THEN <<>>
        ELSE LET k == SplitKeyVal(l)
             IN  IF k = NoKV THEN <<>> ELSE <<MakeItem(strategy, k, ph)>>

RECURSIVE ParseLines(_, _, _)
ParseLines(strategy, lines, ph) ==
    IF lines = <<>> THEN <<>>
    ELSE ParseRawLine(strategy, Head(lines), ph) \o ParseLines(strategy, Tail(lines), ph)

ParseLexiconGenerating(response, ph) == ParseLines("lexicon_generating", SplitLines(response), ph)
ParseBootstrapping(response, ph) == ParseLines("lexicon_bootstrapping", SplitLines(response), ph)
ParseSentimentBearings(response, ph) == ParseLines("sentiment_bearings", SplitLines(response), ph)
ParseGenericKeyValue(response, ph) == ParseLines("generic", SplitLines(response), ph)

S_lexicon_generating == <<"l", "e", "x", "i", "c", "o", "n", "_", "g", "e", "n", "e", "r", "a", "t", "i", "n", "g">>
S_lexicon_generating_h == <<"l", "e", "x", "i", "c", "o", "n", "-", "g", "e", "n", "e", "r", "a", "t", "i", "n", "g">>
S_lexicon_bootstrapping == <<"l", "e", "x", "i", "c", "o", "n", "_", "b", "o", "o", "t", "s", "t", "r", "a", "p", "p", "i", "n", "g">>
S_lexicon_bootstrapping_h == <<"l", "e", "x", "i", "c", "o", "n", "-", "b", "o", "o", "t", "s", "t", "r", "a", "p", "p", "i", "n", "g">>
S_sentiment_bearings == <<"s", "e", "n", "t", "i", "m", "e", "n", "t", "_", "b", "e", "a", "r", "i", "n", "g", "s">>
S_sentiment_bearings_h == <<"s", "e", "n", "t", "i", "m", "e", "n", "t", "-", "b", "e", "a", "r", "i", "n", "g", "s">>

(* The strategy _parse_response_by_task selects. *)
StrategyOf(folder) ==
    LET key == Lower(folder)
    IN  IF Contains(key, S_lexicon_generating) \/ Contains(key, S_lexicon_generating_h)
        THEN "lexicon_generating"
        ELSE IF Contains(key, S_lexicon_bootstrapping) \/ Contains(key, S_lexicon_bootstrapping_h)
        THEN "lexicon_bootstrapping"
        ELSE IF Contains(key, S_sentiment_bearings) \/ Contains(key, S_sentiment_bearings_h)
        THEN "sentiment_bearings"
        ELSE "generic"

ParseResponseByTask(response, folder, ph) ==
    CASE StrategyOf(folder) = "lexicon_generating" -> ParseLexiconGenerating(response, ph)
      [] StrategyOf(folder) = "lexicon_bootstrapping" -> ParseBootstrapping(response, ph)
      [] StrategyOf(folder) = "sentiment_bearings" -> ParseSentimentBearings(response, ph)
      [] StrategyOf(folder) = "generic" -> ParseGenericKeyValue(response, ph)

----------------------------------------------------------------------------
(* LLMTask.run: the batch loop. *)

(* Variant of PySliceTo: the accumulator is returned untrimmed. *)
PySliceToUntrimmed(s, n) == s
(* collected[:n], for any integer n. *)
PySliceTo(s, n) == IF n >= 0 THEN TakeN(s, n) ELSE TakeN(s, Max(0, Len(s) + n))

(* Variants of LoopCondition: one comparison is off by one. *)
LoopConditionTargetInclusive(c, target, batches, limit) ==
    Len(c) <= target /\ batches < limit
LoopConditionLimitInclusive(c, target, batches, limit) ==
    Len(c) < target /\ batches <= limit
(* The condition of the while loop. *)
LoopCondition(c, target, batches, limit) == Len(c) < target /\ batches < limit

(* Variant of CallbackArgs: the count is not capped at the target. *)
CallbackArgsUncapped(c, target) == <<Len(c), target>>
(* The arguments of one progress_callback invocation. *)
CallbackArgs(c, target) == <<Min(Len(c), target), target>>

(* The outcome of one llm_client.generate call: a text, or an Exception. *)
GenError == [ok |-> FALSE, text |-> <<>>]
GenText(s) == [ok |-> TRUE, text |-> s]

NoResult == [kind |-> "none"]
Returned(records) == [kind |-> "returned", records |-> records]
Raised(error) == [kind |-> "raised", error |-> error]

NoFile == [exists |-> FALSE, text |-> <<>>]
PromptFile(s) == [exists |-> TRUE, text |-> s]

lineIdle == /\ raw_line = <<>> /\ line = <<>> /\ kv = NoKV /\ items = <<>> /\ lpc = "idle"

(* _load_and_fill_prompt raises FileNotFoundError: run propagates it. *)
PromptNotFound ==
    /\ pc = "start"
    /\ ~template.exists
    /\ pc' = "raised"
    /\ result' = Raised("FileNotFoundError")
    /\ UNCHANGED <<task_folder, template, placeholders, target_count, max_batches,
                   has_callback, prompt, collected, batch_count, outcomes, cb_log, lineVars>>

(* Variant of PromptMissingPlaceholder: the check is skipped and _repl's default *)
(* fills the unmet markers.                                                     *)
PromptMissingPlaceholderFilled ==
    /\ pc = "start"
    /\ template.exists
    /\ MissingPlaceholders(template.text, placeholders) # <<>>
    /\ prompt' = ReSub(template.text, placeholders)
    /\ collected' = <<>>
    /\ batch_count' = 0
    /\ pc' = "loop"
    /\ UNCHANGED <<task_folder, template, placeholders, target_count, max_batches,
                   has_callback, result, outcomes, cb_log, lineVars>>
(* _load_and_fill_prompt raises ValueError: run propagates it. *)
PromptMissingPlaceholder ==
    /\ pc = "start"
    /\ template.exists
    /\ MissingPlaceholders(template.text, placeholders) # <<>>
    /\ pc' = "raised"
    /\ result' = Raised("ValueError")
    /\ UNCHANGED <<task_folder, template, placeholders, target_count, max_batches,
                   has_callback, prompt, collected, batch_count, outcomes, cb_log, lineVars>>

(* _load_and_fill_prompt returns; run initialises the accumulator and the counter. *)
PromptFilled ==
    /\ pc = "start"
    /\ template.exists
    /\ MissingPlaceholders(template.text, placeholders) = <<>>
    /\ prompt' = ReSub(template.text, placeholders)
    /\ collected' = <<>>
    /\ batch_count' = 0
    /\ pc' = "loop"
    /\ UNCHANGED <<task_folder, template, placeholders, target_count, max_batches,
                   has_callback, result, outcomes, cb_log, lineVars>>

(* The while condition holds: the batch counter is incremented and generate is called. *)
WhileEnter ==
    /\ pc = "loop"
    /\ LoopCondition(collected, target_count, batch_count, max_batches)
    /\ batch_count' = batch_count + 1
    /\ pc' = "generate"
    /\ UNCHANGED <<task_folder, template, placeholders, target_count, max_batches,
                   has_callback, prompt, collected, result, outcomes, cb_log, lineVars>>

(* The while condition fails: run returns the trimmed accumulator. *)
WhileExit ==
    /\ pc = "loop"
    /\ ~LoopCondition(collected, target_count, batch_count, max_batches)
    /\ result' = Returned(PySliceTo(collected, target_count))
    /\ pc' = "done"
    /\ UNCHANGED <<task_folder, template, placeholders, target_count, max_batches,
                   has_callback, prompt, collected, batch_count, outcomes, cb_log, lineVars>>

(* Variant of GenerateRaises: the loop continues instead of breaking. *)
GenerateRaisesContinues ==
    /\ pc = "generate"
    /\ outcomes' = Append(outcomes, GenError)
    /\ pc' = "loop"
    /\ UNCHANGED <<task_folder, template, placeholders, target_count, max_batches,
                   has_callback, prompt, collected, batch_count, result, cb_log, lineVars>>
(* generate raises an Exception: it is logged, the loop breaks and run returns. *)
GenerateRaises ==
    /\ pc = "generate"
    /\ outcomes' = Append(outcomes, GenError)
    /\ result' = Returned(PySliceTo(collected, target_count))
    /\ pc' = "done"
    /\ UNCHANGED <<task_folder, template, placeholders, target_count, max_batches,
                   has_callback, prompt, collected, batch_count, cb_log, lineVars>>

(* generate returns a text that parses to nothing: the loop breaks and run returns. *)
GenerateReturnsNothing(text) ==
    /\ pc = "generate"
    /\ ParseResponseByTask(text, task_folder, placeholders) = <<>>
    /\ outcomes' = Append(outcomes, GenText(text))
    /\ result' = Returned(PySliceTo(collected, target_count))
    /\ pc' = "done"
    /\ UNCHANGED <<task_folder, template, placeholders, target_count, max_batches,
                   has_callback, prompt, collected, batch_count, cb_log, lineVars>>

(* generate returns a text with records: they are appended, and the callback, when *)
(* there is one, is invoked.                                                       *)
GenerateReturnsItems(text) ==
    /\ pc = "generate"
    /\ ParseResponseByTask(text, task_folder, placeholders) # <<>>
    /\ outcomes' = Append(outcomes, GenText(text))
    /\ collected' = collected \o ParseResponseByTask(text, task_folder, placeholders)
    /\ IF has_callback
       THEN /\ cb_log' = Append(cb_log, [args |-> CallbackArgs(collected', target_count),
                                         status |-> "called"])
            /\ pc' = "callback"
       ELSE /\ cb_log' = cb_log
            /\ pc' = "loop"
    /\ UNCHANGED <<task_folder, template, placeholders, target_count, max_batches,
                   has_callback, prompt, batch_count, result, lineVars>>

(* progress_callback returns. *)
CallbackReturns ==
    /\ pc = "callback"
    /\ cb_log' = [cb_log EXCEPT ![Len(cb_log)].status = "returned"]
    /\ pc' = "loop"
    /\ UNCHANGED <<task_folder, template, placeholders, target_count, max_batches,
                   has_callback, prompt, collected, batch_count, result, outcomes,
                   lineVars>>

(* Variant of CallbackRaises: the exception is not caught and run raises. *)
CallbackRaisesPropagates ==
    /\ pc = "callback"
    /\ cb_log' = [cb_log EXCEPT ![Len(cb_log)].status = "raised"]
    /\ result' = Raised("Exception")
    /\ pc' = "raised"
    /\ UNCHANGED <<task_folder, template, placeholders, target_count, max_batches,
                   has_callback, prompt, collected, batch_count, outcomes, lineVars>>
(* progress_callback raises an Exception: it is logged and ignored. *)
CallbackRaises ==
    /\ pc = "callback"
    /\ cb_log' = [cb_log EXCEPT ![Len(cb_log)].status = "raised"]
    /\ pc' = "loop"
    /\ UNCHANGED <<task_folder, template, placeholders, target_count, max_batches,
                   has_callback, prompt, collected, batch_count, result, outcomes,
                   lineVars>>

----------------------------------------------------------------------------
(* The runs explored: arguments of run and outcomes of generate. *)

RespOne == <<"1", ".", " ", "a", ":", " ", "b">>
RespTwo == <<"-", " ", "a", ":", " ", "b", "\n", "c">>
RespThree == <<"a", "\n", "b", "\n", "c">>
RespDone == <<"D", "O", "N", "E">>
Responses == {RespOne, RespTwo, RespThree, RespDone, <<>>}

RunFolders == {S_lexicon_generating, <<"q", "a">>}

K_n == <<"n">>
K_topic == <<"t", "o", "p", "i", "c">>
RunPrompts ==
    { <<NoFile, <<>> >>,
      <<PromptFile(<<"{", "n", "}">>), (K_language :> PyStr(<<"s", "t">>))>>,
      <<PromptFile(<<"{", "n", "}", " ", "{", "t", "o", "p", "i", "c", "}">>),
        (K_n :> PyInt(3)) @@ (K_topic :> PyStr(<<"w">>))>>,
      <<PromptFile(<<"a">>), (K_language :> PyStr(<<"s", "t">>))>> }

Init ==
    /\ pc = "start"
    /\ task_folder \in RunFolders
    /\ \E p \in RunPrompts : template = p[1] /\ placeholders = p[2]
    /\ target_count \in -1..MaxTarget
    /\ max_batches \in -1..MaxBatchLimit
    /\ has_callback \in BOOLEAN
    /\ prompt = <<>>
    /\ collected = <<>>
    /\ batch_count = 0
    /\ result = NoResult
    /\ outcomes = <<>>
    /\ cb_log = <<>>
    /\ lineIdle

Next ==
    \/ PromptNotFound
    \/ PromptMissingPlaceholder
    \/ PromptFilled
    \/ WhileEnter
    \/ WhileExit
    \/ GenerateRaises
    \/ \E text \in Responses : GenerateReturnsNothing(text)
    \/ \E text \in Responses : GenerateReturnsItems(text)
    \/ CallbackReturns
    \/ CallbackRaises

Spec == Init /\ [][Next]_vars

(* Every call of generate and of the callback returns or raises, and run's own *)
(* steps are taken.                                                            *)
FairSpec == Init /\ [][Next]_vars /\ WF_vars(Next)

----------------------------------------------------------------------------
(* Prompt filling alone: _load_and_fill_prompt over every small template. *)

runIdle ==
    /\ task_folder = <<"q", "a">>
    /\ target_count = 0
    /\ max_batches = 0
    /\ has_callback = FALSE
    /\ prompt = <<>>
    /\ collected = <<>>
    /\ batch_count = 0
    /\ result = NoResult
    /\ outcomes = <<>>
    /\ cb_log = <<>>

(* The sequences over alphabet of length at most n. *)
SeqsUpTo(alphabet, n) == UNION {[1..k -> alphabet] : k \in 0..n}

FillAlphabet == {"{", "}", "a", " "}
FillNames == {<<"a">>, <<"a", "a">>}
FillValues == {PyStr(<<"{", "a", "}">>), PyStr(<<"a", " ", "a">>), PyInt(3)}
FillMaps == UNION {[names -> FillValues] : names \in SUBSET FillNames}

FillInit ==
    /\ pc = "start"
    /\ template \in {NoFile} \cup {PromptFile(s) : s \in SeqsUpTo(FillAlphabet, MaxTemplateLen)}
    /\ placeholders \in FillMaps
    /\ runIdle
    /\ lineIdle

FillNext ==
    \/ PromptNotFound
    \/ PromptMissingPlaceholder
    \/ PromptFilled

SpecFill == FillInit /\ [][FillNext]_vars

----------------------------------------------------------------------------
(* One response line through a parser: cleaning, the skip test, splitting. *)

LineTokens ==
    { <<" ">>, <<"-">>, <<"*">>, <<"1">>, <<".">>, <<"#">>, <<"a">>, <<":">>, <<"\t">>,
      <<"D", "O", "N", "E">>, <<"d", "o", "n", "e">>,
      <<" ", "-", " ">>, <<" ", "EMDASH", " ">>, <<"ENDASH">> }

RECURSIVE Flatten(_)
Flatten(ss) == IF ss = <<>> THEN <<>> ELSE Head(ss) \o Flatten(Tail(ss))

LinesUpTo(n) == {Flatten(ts) : ts \in SeqsUpTo(LineTokens, n)}

LineFolders ==
    { S_lexicon_generating,
      <<"L", "e", "x", "i", "c", "o", "n", "-", "B", "o", "o", "t", "s", "t", "r", "a", "p", "p", "i", "n", "g">>,
      <<"s", "e", "n", "t", "i", "m", "e", "n", "t", "_", "b", "e", "a", "r", "i", "n", "g", "s", "/", "v", "2">>,
      <<"q", "a">> }

LineInit ==
    /\ raw_line \in LinesUpTo(MaxLineTokens)
    /\ line = <<>>
    /\ kv = NoKV
    /\ items = <<>>
    /\ lpc = "raw"
    /\ pc = "idle"
    /\ template = NoFile
    /\ placeholders = (K_language :> PyStr(<<"s", "t">>))
    /\ task_folder \in LineFolders
    /\ target_count = 0
    /\ max_batches = 0
    /\ has_callback = FALSE
    /\ prompt = <<>>
    /\ collected = <<>>
    /\ batch_count = 0
    /\ result = NoResult
    /\ outcomes = <<>>
    /\ cb_log = <<>>

(* One iteration of the for loop of the selected parser, on raw_line. *)
ParseLine ==
    /\ lpc = "raw"
    /\ line' = StandardLineClean(raw_line)
    /\ kv' = IF SkipLine(line') THEN NoKV ELSE SplitKeyVal(line')
    /\ items' = ParseResponseByTask(raw_line, task_folder, placeholders)
    /\ lpc' = "parsed"
    /\ UNCHANGED <<raw_line, runVars>>

LineNext == ParseLine

SpecLines == LineInit /\ [][LineNext]_vars

----------------------------------------------------------------------------
(* Properties of run.  They are stated over the history of generate outcomes. *)

(* The records one outcome contributes: the parse of its text, nothing for an error. *)
RecordsOf(o) == IF o.ok THEN ParseResponseByTask(o.text, task_folder, placeholders) ELSE <<>>
Unproductive(o) == RecordsOf(o) = <<>>

(* The in-order concatenation of the records of the first n outcomes. *)
RECURSIVE AccumulatedUpTo(_)
AccumulatedUpTo(n) ==
    IF n = 0 THEN <<>> ELSE AccumulatedUpTo(n - 1) \o RecordsOf(outcomes[n])
Accumulated == AccumulatedUpTo(Len(outcomes))

FirstN(s, n) == [i \in 1..n |-> s[i]]
CeilDiv(a, b) == (a + b - 1) \div b
Calls == Len(outcomes)
Finished == pc = "done"

(* C1: for target_count >= 0, what run returns is exactly the first                *)
(* min(target_count, N) records of the in-order concatenation of the parsed        *)
(* batches, N being its length: never more than target_count records, none         *)
(* reordered or dropped inside the prefix.                                         *)
C1_ResultIsPrefix ==
    (Finished /\ target_count >= 0) =>
        /\ result.kind = "returned"
        /\ Len(result.records) <= target_count
        /\ result.records = FirstN(Accumulated, Min(target_count, Len(Accumulated)))

C1_Witness ==
    /\ Finished
    /\ target_count >= 2
    /\ Calls >= 2
    /\ Len(Accumulated) > target_count
    /\ Len(result.records) = target_count

(* Every outcome so far is a text that parses to exactly k records. *)
AlwaysBatchOf(k) == \A i \in 1..Calls : outcomes[i].ok /\ Len(RecordsOf(outcomes[i])) = k
BatchSizes == 1..3

(* C2 as stated, on the runs that made a call: with target_count > 0 and every     *)
(* response parsing to exactly k records, run returns exactly target_count records *)
(* with at most ceil(target_count / k) calls and never more than max_batches       *)
(* calls, whatever max_batches is.                                                 *)
C2_AsStated ==
    \A k \in BatchSizes :
        (Finished /\ target_count > 0 /\ Calls >= 1 /\ AlwaysBatchOf(k)) =>
            /\ Len(result.records) = target_count
            /\ Calls <= CeilDiv(target_count, k)
            /\ Calls <= max_batches

(* C2 amended: under the same hypothesis run returns exactly                       *)
(* min(target_count, k * max(0, max_batches)) records, which is target_count when  *)
(* max_batches >= ceil(target_count / k), and makes exactly                        *)
(* min(ceil(target_count / k), max(0, max_batches)) calls.                         *)
C2_FixedBatches ==
    \A k \in BatchSizes :
        (Finished /\ target_count > 0 /\ AlwaysBatchOf(k)) =>
            /\ Len(result.records) = Min(target_count, k * Max(0, max_batches))
            /\ (max_batches >= CeilDiv(target_count, k) => Len(result.records) = target_count)
            /\ Calls = Min(CeilDiv(target_count, k), Max(0, max_batches))
            /\ Calls <= CeilDiv(target_count, k)
            /\ Calls <= Max(0, max_batches)

C2_Witness ==
    /\ Finished
    /\ target_count = 3
    /\ AlwaysBatchOf(2)
    /\ Calls = 2
    /\ Len(collected) = 4
    /\ Len(result.records) = 3

(* C3: when batch i raises or parses to zero records the loop stops there: it is   *)
(* the last call, no callback is invoked for it, run returns (does not raise) the  *)
(* records of batches 1..i-1 trimmed to target_count.                              *)
C3_EarlyExit ==
    \A i \in 1..Calls :
        Unproductive(outcomes[i]) =>
            /\ i = Calls
            /\ Finished
            /\ result.kind = "returned"
            /\ result.records =
                   FirstN(AccumulatedUpTo(i - 1), Min(target_count, Len(AccumulatedUpTo(i - 1))))
            /\ Len(cb_log) = (IF has_callback THEN i - 1 ELSE 0)
            /\ (i = 1 => result.records = <<>>)

C3_Witness ==
    /\ Finished
    /\ Calls = 3
    /\ ~outcomes[3].ok
    /\ has_callback
    /\ Len(cb_log) = 2
    /\ result.records # <<>>
    /\ Len(result.records) < target_count

(* C4: when the template does not exist or a marker has no entry in the            *)
(* placeholder map, run raises without any generation call, any callback           *)
(* invocation or any returned result.                                              *)
IsMarker(s, i, j) ==
    /\ i + 1 < j
    /\ s[i] = "{"
    /\ s[j] = "}"
    /\ \A m \in i + 1..j - 1 : s[m] \in WordChars
MarkerNames(s) ==
    {SubSeq(s, i + 1, j - 1) : <<i, j>> \in {q \in (1..Len(s)) \X (1..Len(s)) : IsMarker(s, q[1], q[2])}}
PreconditionFails ==
    \/ ~template.exists
    \/ \E name \in MarkerNames(template.text) : name \notin DOMAIN placeholders
C4_PreconditionFirst ==
    PreconditionFails =>
        /\ pc \in {"start", "raised"}
        /\ (pc = "raised" => result.kind = "raised")
        /\ (pc = "start" => result.kind = "none")
        /\ Calls = 0
        /\ batch_count = 0
        /\ cb_log = <<>>

C4_Witness ==
    /\ pc = "raised"
    /\ template.exists
    /\ result = Raised("ValueError")
    /\ has_callback
    /\ target_count > 0
    /\ max_batches > 0

(* C5: the callback has no influence: the accumulator, the batch counter, whether  *)
(* another generation call is made and what run returns are functions of the       *)
(* outcomes of generate alone, and run never raises once the prompt is filled,     *)
(* whether the callback is absent, returns or raises.                              *)
C5_ObserverIsolation ==
    /\ pc \in {"loop", "generate", "callback", "done"} =>
           /\ collected = Accumulated
           /\ batch_count = Calls + (IF pc = "generate" THEN 1 ELSE 0)
    /\ pc = "raised" => (Calls = 0 /\ cb_log = <<>> /\ PreconditionFails)
    /\ pc = "generate" =>
           /\ \A i \in 1..Calls : ~Unproductive(outcomes[i])
           /\ Len(Accumulated) < target_count
           /\ Calls < max_batches
    /\ Finished =>
           /\ result = Returned(FirstN(Accumulated, Max(0, Min(target_count, Len(Accumulated)))))
           /\ \/ Calls >= 1 /\ Unproductive(outcomes[Calls])
              \/ Len(Accumulated) >= target_count
              \/ Calls >= max_batches

C5_Witness ==
    /\ Finished
    /\ Calls >= 3
    /\ \E i \in 1..Len(cb_log) : cb_log[i].status = "raised"
    /\ \E i \in 1..Len(cb_log) : cb_log[i].status = "returned"
    /\ Len(result.records) = target_count

(* C6: every run terminates, makes at most max(0, max_batches) generation calls,   *)
(* starts a generation call only while the accumulator holds fewer than            *)
(* target_count records and fewer than max_batches calls were made, and so makes   *)
(* no call and returns nothing when target_count <= 0 or max_batches <= 0.         *)
C6_BoundedWork ==
    /\ <>(pc \in {"done", "raised"})
    /\ [](Calls <= Max(0, max_batches))
    /\ [][pc' = "generate" => (Len(collected) < target_count /\ Calls < max_batches)]_vars
    /\ []((target_count <= 0 \/ max_batches <= 0) =>
              /\ Calls = 0
              /\ pc # "generate"
              /\ (Finished => result = Returned(<<>>)))

C6_Witness ==
    /\ Finished
    /\ max_batches >= 2
    /\ Calls = max_batches
    /\ Len(result.records) < target_count
    /\ \A i \in 1..Calls : ~Unproductive(outcomes[i])

(* C7: a supplied callback is invoked exactly once per successful batch, after the *)
(* batch was appended and before the next generation call, with                    *)
(* (min(accumulated, target_count), target_count); the first arguments never       *)
(* decrease, never exceed target_count, and the last one is the length of what     *)
(* run returns.                                                                    *)
Successes == Cardinality({i \in 1..Calls : ~Unproductive(outcomes[i])})
C7_ProgressReporting ==
    /\ Len(cb_log) = (IF has_callback THEN Successes ELSE 0)
    /\ \A j \in 1..Len(cb_log) :
           /\ cb_log[j].args =
                  <<Min(Len(AccumulatedUpTo(j)), target_count), target_count>>
           /\ cb_log[j].args[1] <= target_count
           /\ (j > 1 => cb_log[j - 1].args[1] <= cb_log[j].args[1])
           /\ (cb_log[j].status = "called" <=> (j = Len(cb_log) /\ pc = "callback"))
    /\ pc = "callback" => (Len(cb_log) = Calls /\ collected = Accumulated)
    /\ (pc = "generate" /\ has_callback) => Len(cb_log) = Calls
    /\ (Finished /\ cb_log # <<>>) =>
           cb_log[Len(cb_log)].args[1] = Len(result.records)

C7_Witness ==
    /\ Finished
    /\ Calls = 3
    /\ Len(cb_log) = 3
    /\ cb_log[1].args[1] < cb_log[2].args[1]
    /\ cb_log[2].args[1] < cb_log[3].args[1]
    /\ cb_log[2].status = "raised"
    /\ cb_log[3].args[1] = target_count
    /\ Len(collected) > target_count

----------------------------------------------------------------------------
(* Properties of prompt filling. *)

Filled == pc = "loop"

(* C8 as stated: when every marker of the template has a key, filling succeeds and *)
(* the filled prompt holds no {name} marker, whatever the values are.              *)
C8_AsStated ==
    /\ (pc = "raised" /\ template.exists) => PreconditionFails
    /\ Filled => MarkerNames(prompt) = {}

(* A value whose string form holds no brace and at least one non-word character. *)
PlainValue(v) ==
    /\ "{" \notin Range(PyToStr(v))
    /\ "}" \notin Range(PyToStr(v))
    /\ \E c \in Range(PyToStr(v)) : c \notin WordChars

(* C8 amended: when every marker of the template has a key, filling succeeds; the  *)
(* filled prompt holds no {name} marker provided the string form of every          *)
(* substituted value holds no brace and at least one non-word character.           *)
C8_NoMarkerLeft ==
    /\ (pc = "raised" /\ template.exists) => PreconditionFails
    /\ (Filled /\ \A name \in MarkerNames(template.text) :
                       name \in DOMAIN placeholders /\ PlainValue(placeholders[name]))
           => MarkerNames(prompt) = {}

C8_Witness ==
    /\ Filled
    /\ template.text = <<"{", "{", "a", "}", "}">>
    /\ <<"a">> \in DOMAIN placeholders
    /\ PlainValue(placeholders[<<"a">>])
    /\ prompt = <<"{", "a", " ", "a", "}">>

----------------------------------------------------------------------------
(* Properties of the line parsers. *)

Parsed == lpc = "parsed"
Trimmed == Strip(raw_line)
SkipDecision(l) == l = <<>> \/ Upper(l) = <<"D", "O", "N", "E">> \/ Head(l) = "#"

(* C9 as stated: the skip decision is taken on the whitespace-trimmed line, before *)
(* a bullet or ordinal is stripped: the line gives no record exactly when its      *)
(* trimmed form is empty, a bare case-insensitive DONE or begins with '#', or it   *)
(* is empty after stripping; any other line gives exactly one record.              *)
C9_AsStated ==
    Parsed =>
        IF SkipDecision(Trimmed) \/ line = <<>>
        THEN items = <<>>
        ELSE Len(items) = 1

(* C9 amended: the skip decision is taken on the cleaned line, after the bullet    *)
(* and the ordinal are stripped: the line gives no record exactly when its cleaned *)
(* form is empty, a bare case-insensitive DONE or begins with '#' (so '- DONE' and *)
(* '1. #x' are skipped); any other line gives exactly one record.  The cleaned     *)
(* line is a trimmed suffix of the trimmed line.                                   *)
C9_SkipOnCleanedLine ==
    Parsed =>
        /\ \E n \in 0..Len(Trimmed) : line = DropN(Trimmed, n)
        /\ line = Strip(line)
        /\ IF SkipDecision(line) THEN items = <<>> ELSE Len(items) = 1
        /\ SkipDecision(Trimmed) => items = <<>>

C9_Witness ==
    /\ Parsed
    /\ raw_line = <<"-", " ", "D", "O", "N", "E">>
    /\ line = <<"D", "O", "N", "E">>
    /\ items = <<>>

(* The separators in the order of the claim. *)
PrioritySeparators ==
    << <<":">>, <<" ", "-", " ">>, <<" ", "EMDASH", " ">>, <<"ENDASH">>, <<"\t">> >>
SepAt(l, sep, p) ==
    /\ p + Len(sep) - 1 <= Len(l)
    /\ \A j \in 1..Len(sep) : l[p + j - 1] = sep[j]
SepIn(l, sep) == \E p \in 1..Len(l) : SepAt(l, sep, p)

====
